---- MODULE Spec2Model ----
(***************************************************************************)
(* Model of the TSP solving engine of the Travelling Salesperson           *)
(* Visualizer: greedyTSP, heldKarpTSP and christofidesTSP of               *)
(* src/utils/tsp-algorithms.ts with their helpers primMST,                 *)
(* minimumWeightMatching and findEulerianCircuit, and calculatePathCost    *)
(* (found in src/components/ReactFlowGraph.tsx, after the component).      *)
(* One solver runs on one distance matrix; every iteration of a solver's   *)
(* outer loops is one step of the model.  "Lines" are lines of             *)
(* src/utils/tsp-algorithms.ts.                                            *)
(*                                                                         *)
(* Spec runs one solver once, TwiceSpec calls it a second time on the same *)
(* matrix, EulerSpec runs findEulerianCircuit on every connected multigraph*)
(* with even degrees.  AppSpec is the App component with the               *)
(* AlgorithmStepper it renders: user events, the 100 ms timer of           *)
(* runAlgorithms and the auto-play intervals, each handler one step;       *)
(* PlaySpec is AppSpec with the user idle while a tab is playing.          *)
(*                                                                         *)
(* Node indices are 0..n-1 as in the source.  JavaScript arrays are        *)
(* sequences (1-based), so array index k of the source is k+1 here.        *)
(* Distances are naturals; Infinity is a number above every finite cost.   *)
(* Optional fields of AlgorithmStep are record fields that are absent.     *)
(* A step field that the source fills with a reference to a live array     *)
(* (visitedNodes: path) is a slot [ref |-> name]; a field filled with a    *)
(* fresh array ([...path]) is a slot [val |-> contents].                   *)
(***************************************************************************)
EXTENDS Integers, Sequences, FiniteSets, TLC

\* ------------------------------------------------------------------ bounds
\* Dimensions 1..MaxN with entries 0 or 1; dimensions 1..WideN with entries
\* 0..MaxW.
MaxN == 4
WideN == 3
MaxW == 2

\* ------------------------------------------------------- program constants
Infinity == 1000000
HeldKarpLimit == 15

VARIABLES
    distanceMatrix, \* the input: [0..n-1 -> [0..n-1 -> Nat]]
    alg,            \* the solver that runs: "greedy", "heldKarp", "christofides"
    pc,             \* position in the solver
    steps,          \* steps: AlgorithmStep[]
    path,           \* path: number[] of the running solver
    visited,        \* greedyTSP: set of j with visited[j]
    totalCost,      \* greedyTSP / christofidesTSP: totalCost
    i,              \* loop counter of greedyTSP, primMST, minimumWeightMatching
    dp,             \* heldKarpTSP: dp[mask][last]
    parent,         \* heldKarpTSP: parent[mask][last]
    mask,           \* heldKarpTSP: mask of the sweep, then of the reconstruction
    curr,           \* heldKarpTSP: curr of the reconstruction loop
    minCost,        \* heldKarpTSP: minCost
    mst,            \* christofidesTSP: mst (primMST's result, built edge by edge)
    mstVisited,     \* primMST: set of j with visited[j]
    mstEdges,       \* christofidesTSP: mstEdges
    oddVertices,    \* christofidesTSP: oddVertices
    matching,       \* christofidesTSP: matching (minimumWeightMatching's result)
    used,           \* minimumWeightMatching: used
    matchingEdges,  \* christofidesTSP: matchingEdges
    eulerianGraph,  \* christofidesTSP: eulerianGraph; findEulerianCircuit: graph
    start,          \* findEulerianCircuit: start
    adjList,        \* findEulerianCircuit: adjList
    stack,          \* findEulerianCircuit: stack
    circuit,        \* findEulerianCircuit: circuit, then christofidesTSP: circuit
    result,         \* the returned TSPResult: [path, cost], with how it returned
    calls,          \* how many times the solver has been called on the matrix
    previous,       \* what the call before this one returned
    \* App (lines 428-529 of src/utils/tsp-algorithms.ts)
    numCities,      \* numCities
    points,         \* points: which generated graph they are, and how many
    appMatrix,      \* the App's distanceMatrix: the graph it is the matrix of
    results,        \* greedyResult, heldKarpResult, christofidesResult, by tab
    stepIndex,      \* greedyStep, heldKarpStep, christofidesStep, by tab
    isPlaying,      \* isPlayingGreedy, isPlayingHeldKarp, isPlayingChristofides
    isRunning,      \* isRunning
    activeTab,      \* activeTab
    generated,      \* how many graphs generateRandomPoints has drawn
    timeouts,       \* pending setTimeout callbacks: the matrix each captured
    intervals       \* live setInterval callbacks: the result each captured, by tab

svars == <<distanceMatrix, alg, pc, steps, path, visited, totalCost, i, dp, parent,
          mask, curr, minCost, mst, mstVisited, mstEdges, oddVertices, matching,
          used, matchingEdges, eulerianGraph, start, adjList, stack, circuit, result,
          calls, previous>>

appvars == <<numCities, points, appMatrix, results, stepIndex, isPlaying, isRunning,
             activeTab, generated, timeouts, intervals>>

vars == <<svars, appvars>>

callvars == <<calls, previous>>

gvars == <<visited>>
hvars == <<dp, parent, mask, curr, minCost>>
cvars == <<mst, mstVisited, mstEdges, oddVertices, matching, used, matchingEdges,
           eulerianGraph, start, adjList, stack, circuit>>

\* ----------------------------------------------------------------- helpers
N(dm) == Cardinality(DOMAIN dm)

Nodes(dm) == 0 .. (N(dm) - 1)

Last(s) == s[Len(s)]

RECURSIVE Reverse(_)
Reverse(s) == IF s = <<>> THEN <<>> ELSE Append(Reverse(Tail(s)), Head(s))

Range(s) == {s[k] : k \in DOMAIN s}

\* JavaScript number addition with the Infinity sentinel.
Plus(a, b) == IF a = Infinity \/ b = Infinity THEN Infinity ELSE a + b

\* The symmetric, zero-diagonal matrix whose entry for i < j is w[<<i, j>>].
MatrixOf(n, w) ==
    [a \in 0 .. (n - 1) |->
        [b \in 0 .. (n - 1) |->
            IF a = b THEN 0 ELSE IF a < b THEN w[<<a, b>>] ELSE w[<<b, a>>]]]

Pairs(n) == {p \in (0 .. (n - 1)) \X (0 .. (n - 1)) : p[1] < p[2]}

\* The uniform matrices of the first dimension Held-Karp refuses.
LargeMatrices ==
    {MatrixOf(HeldKarpLimit + 1, [p \in Pairs(HeldKarpLimit + 1) |-> c]) : c \in 0 .. 1}

ValidMatrix(dm) ==
    /\ N(dm) >= 1
    /\ \A a \in Nodes(dm) : DOMAIN dm[a] = Nodes(dm)
    /\ \A a \in Nodes(dm) : dm[a][a] = 0
    /\ \A a, b \in Nodes(dm) : dm[a][b] = dm[b][a] /\ dm[a][b] >= 0

\* -------------------------------------------------------------------- steps
Val(s) == [val |-> s]
Ref(name) == [ref |-> name]

\* The arrays a step may hold a reference to, as they are now.
Heap ==
    [path |-> path, oddVertices |-> oddVertices, mstEdges |-> mstEdges,
     matchingEdges |-> matchingEdges, circuit |-> circuit]

Deref(slot) == IF "ref" \in DOMAIN slot THEN Heap[slot.ref] ELSE slot.val

\* What a reader of steps[k] sees: every array field resolved.
StepView(s) ==
    [f \in DOMAIN s |->
        IF f \in {"visitedNodes", "currentPath", "exploringEdges"}
        THEN Deref(s[f]) ELSE s[f]]

StepsView == [k \in DOMAIN steps |-> StepView(steps[k])]

Edge(a, b) == [from |-> a, to |-> b]

\* calculatePathCost(path, distanceMatrix)
RECURSIVE SumConsecutive(_, _, _)
SumConsecutive(p, dm, k) ==
    IF k >= Len(p) THEN 0
    ELSE dm[p[k]][p[k + 1]] + SumConsecutive(p, dm, k + 1)

calculatePathCost(p, dm) == SumConsecutive(p, dm, 1) + dm[Last(p)][p[1]]

\* ------------------------------------------------------------------- greedy
\* Lines 44-49: the edges from current to every unvisited j, ascending.
RECURSIVE ExploringFrom(_, _, _, _)
ExploringFrom(n, vis, current, j) ==
    IF j >= n THEN <<>>
    ELSE IF j \notin vis
         THEN <<Edge(current, j)>> \o ExploringFrom(n, vis, current, j + 1)
         ELSE ExploringFrom(n, vis, current, j + 1)

\* Lines 61-66: scan j ascending, strict '<' against the minimum so far.
RECURSIVE NearestScan(_, _, _, _, _)
NearestScan(dm, vis, current, j, best) ==
    IF j >= N(dm) THEN best
    ELSE IF j \notin vis /\ dm[current][j] < best.minDistance
         THEN NearestScan(dm, vis, current, j + 1,
                          [nearest |-> j, minDistance |-> dm[current][j]])
         ELSE NearestScan(dm, vis, current, j + 1, best)

\* The lowest unvisited index taken, whatever its distance.
NearestIgnoringDistance(dm, vis, current) ==
    IF Nodes(dm) \ vis = {} THEN [nearest |-> -1, minDistance |-> Infinity]
    ELSE LET j == CHOOSE a \in Nodes(dm) \ vis : \A b \in Nodes(dm) \ vis : a <= b
         IN  [nearest |-> j, minDistance |-> dm[current][j]]

Nearest(dm, vis, current) ==
    NearestScan(dm, vis, current, 0, [nearest |-> -1, minDistance |-> Infinity])

\* Lines 39-41 and 61-72: the nearest unvisited node is appended, marked
\* visited and paid for; nothing changes when there is none.
GreedyAdvance(dm, p, vis, cost) ==
    LET pick == Nearest(dm, vis, Last(p))
    IN  IF pick.nearest # -1
        THEN [path |-> Append(p, pick.nearest), visited |-> vis \cup {pick.nearest},
              totalCost |-> cost + pick.minDistance, nearest |-> pick.nearest]
        ELSE [path |-> p, visited |-> vis, totalCost |-> cost, nearest |-> -1]

\* Lines 29-36.
GreedyStartStep ==
    [description |-> "Start at node 0", currentNode |-> 0,
     visitedNodes |-> Val(<<0>>), currentPath |-> Val(<<0>>), cost |-> 0]

\* The exploring step listing an edge to every node, visited or not.
GreedyExploreStepAllNodes(p, vis, n, cost) ==
    [description |-> "exploring unvisited neighbors", currentNode |-> Last(p),
     visitedNodes |-> Val(p), currentPath |-> Val(p),
     exploringEdges |-> Val(ExploringFrom(n, {}, Last(p), 0)), cost |-> cost]

\* Lines 51-59.
GreedyExploreStep(p, vis, n, cost) ==
    [description |-> "exploring unvisited neighbors", currentNode |-> Last(p),
     visitedNodes |-> Val(p), currentPath |-> Val(p),
     exploringEdges |-> Val(ExploringFrom(n, vis, Last(p), 0)), cost |-> cost]

\* The move step holding the path array itself instead of a copy of it.
GreedyMoveStepAliased(p, current, nearest, cost) ==
    [description |-> "Move to nearest node", currentNode |-> nearest,
     visitedNodes |-> Ref("path"), currentPath |-> Ref("path"),
     highlightEdge |-> Edge(current, nearest), cost |-> cost]

\* Lines 73-81, taken after path.push(nearest).
GreedyMoveStep(p, current, nearest, cost) ==
    [description |-> "Move to nearest node", currentNode |-> nearest,
     visitedNodes |-> Val(p), currentPath |-> Val(p),
     highlightEdge |-> Edge(current, nearest), cost |-> cost]

\* Lines 89-97.
GreedyReturnStep(p, cost) ==
    [description |-> "Return to start node 0", currentNode |-> 0,
     visitedNodes |-> Val(Append(p, 0)), currentPath |-> Val(Append(p, 0)),
     highlightEdge |-> Edge(Last(p), 0), cost |-> cost]

\* The closing edge left out of the total.
GreedyFinalCostOpen(p, dm, cost) == cost

\* Lines 86-87: the closing edge added to the running cost.
GreedyFinalCost(p, dm, cost) == cost + dm[Last(p)][p[1]]

\* greedyTSP with its visited array kept from one call to the next.
GreedyStartKeepsVisited ==
    /\ alg = "greedy" /\ pc = "start"
    /\ path' = <<0>>
    /\ visited' = visited \cup {0}
    /\ totalCost' = 0
    /\ steps' = <<GreedyStartStep>>
    /\ i' = 0
    /\ pc' = "g_loop"
    /\ UNCHANGED <<appvars, callvars, distanceMatrix, alg, hvars, cvars, result>>

\* Lines 21-36.
GreedyStart ==
    /\ alg = "greedy" /\ pc = "start"
    /\ path' = <<0>>
    /\ visited' = {0}
    /\ totalCost' = 0
    /\ steps' = <<GreedyStartStep>>
    /\ i' = 0
    /\ pc' = "g_loop"
    /\ UNCHANGED <<appvars, callvars, distanceMatrix, alg, hvars, cvars, result>>

\* One iteration of the for loop of lines 38-83.
GreedyIter ==
    /\ alg = "greedy" /\ pc = "g_loop"
    /\ i < N(distanceMatrix) - 1
    /\ LET current == Last(path)
           explore == GreedyExploreStep(path, visited, N(distanceMatrix), totalCost)
           r       == GreedyAdvance(distanceMatrix, path, visited, totalCost)
       IN  /\ path' = r.path
           /\ visited' = r.visited
           /\ totalCost' = r.totalCost
           /\ steps' = IF r.nearest # -1
                       THEN steps \o <<explore,
                                       GreedyMoveStep(r.path, current, r.nearest,
                                                      r.totalCost)>>
                       ELSE Append(steps, explore)
    /\ i' = i + 1
    /\ UNCHANGED <<appvars, callvars, distanceMatrix, alg, pc, hvars, cvars, result>>

\* Lines 85-100.
GreedyReturn ==
    /\ alg = "greedy" /\ pc = "g_loop"
    /\ i >= N(distanceMatrix) - 1
    /\ LET final == GreedyFinalCost(path, distanceMatrix, totalCost)
       IN  /\ totalCost' = final
           /\ steps' = Append(steps, GreedyReturnStep(path, final))
           /\ result' = [path |-> path, cost |-> final, how |-> "returned"]
    /\ pc' = "done"
    /\ UNCHANGED <<appvars, callvars, distanceMatrix, alg, path, visited, i, hvars, cvars>>

\* greedyTSP as a function of the matrix: the loop of lines 38-83 run n-1
\* times from path [0], then the closing edge of lines 86-87.
RECURSIVE GreedyLoop(_, _, _)
GreedyLoop(dm, st, k) ==
    IF k >= N(dm) - 1 THEN st
    ELSE GreedyLoop(dm, GreedyAdvance(dm, st.path, st.visited, st.totalCost), k + 1)

greedyTSP(dm) ==
    LET st == GreedyLoop(dm, [path |-> <<0>>, visited |-> {0}, totalCost |-> 0,
                              nearest |-> -1], 0)
    IN  [path |-> st.path, cost |-> GreedyFinalCost(st.path, dm, st.totalCost)]

\* ---------------------------------------------------------------- heldKarp
RECURSIVE Pow2(_)
Pow2(k) == IF k = 0 THEN 1 ELSE 2 * Pow2(k - 1)

\* mask & (1 << k)
HasBit(m, k) == (m \div Pow2(k)) % 2 = 1

\* mask | (1 << k)
SetBit(m, k) == IF HasBit(m, k) THEN m ELSE m + Pow2(k)

\* mask ^ (1 << k)
FlipBit(m, k) == IF HasBit(m, k) THEN m - Pow2(k) ELSE m + Pow2(k)

\* Lines 133-137: both tables allocated, dp[1][0] = 0.
InitialTables(n) ==
    [dp     |-> [m \in 0 .. (Pow2(n) - 1) |->
                    [l \in 0 .. (n - 1) |-> IF m = 1 /\ l = 0 THEN 0 ELSE Infinity]],
     parent |-> [m \in 0 .. (Pow2(n) - 1) |-> [l \in 0 .. (n - 1) |-> -1]]]

\* Lines 157-163: one relaxation.
Relax(dm, tbl, m, last, next) ==
    LET newMask == SetBit(m, next)
        newCost == tbl.dp[m][last] + dm[last][next]
    IN  IF newCost < tbl.dp[newMask][next]
        THEN [dp     |-> [tbl.dp EXCEPT ![newMask][next] = newCost],
              parent |-> [tbl.parent EXCEPT ![newMask][next] = last]]
        ELSE tbl

\* Lines 154-164: the loop over next.
RECURSIVE SweepNext(_, _, _, _, _)
SweepNext(dm, tbl, m, last, next) ==
    IF next >= N(dm) THEN tbl
    ELSE IF HasBit(m, next)
         THEN SweepNext(dm, tbl, m, last, next + 1)
         ELSE SweepNext(dm, Relax(dm, tbl, m, last, next), m, last, next + 1)

\* Lines 148-165: the loop over last.
RECURSIVE SweepLast(_, _, _, _)
SweepLast(dm, tbl, m, last) ==
    IF last >= N(dm) THEN tbl
    ELSE IF ~HasBit(m, last) \/ tbl.dp[m][last] = Infinity
         THEN SweepLast(dm, tbl, m, last + 1)
         ELSE SweepLast(dm, SweepNext(dm, tbl, m, last, 0), m, last + 1)

\* Lines 169-180: the best ending node, scanning i ascending with strict '<'.
RECURSIVE BestEndScan(_, _, _, _)
BestEndScan(dm, dpt, k, best) ==
    IF k >= N(dm) THEN best
    ELSE IF k = 0 THEN BestEndScan(dm, dpt, k + 1, best)
    ELSE LET cost == Plus(dpt[Pow2(N(dm)) - 1][k], dm[k][0])
         IN  IF cost < best.minCost
             THEN BestEndScan(dm, dpt, k + 1, [minCost |-> cost, lastNode |-> k])
             ELSE BestEndScan(dm, dpt, k + 1, best)

BestEnd(dm, dpt) == BestEndScan(dm, dpt, 0, [minCost |-> Infinity, lastNode |-> -1])

\* Lines 188-191: one iteration of the reconstruction loop.
ReconStep(par, p, m, c) ==
    [path |-> Append(p, c), mask |-> FlipBit(m, c), curr |-> par[m][c]]

\* Lines 115-120.
HeldKarpRefusalStep ==
    [description |-> "Graph too large for Held-Karp",
     visitedNodes |-> Val(<<>>), currentPath |-> Val(<<>>)]

\* Lines 124-130.
HeldKarpInitStep ==
    [description |-> "Initialize", currentNode |-> 0,
     visitedNodes |-> Val(<<0>>), currentPath |-> Val(<<0>>)]

\* Lines 139-144.
HeldKarpBuildStep ==
    [description |-> "Build solutions for all subsets of nodes",
     visitedNodes |-> Val(<<0>>), currentPath |-> Val(<<0>>)]

\* The final step without its cost field.
HeldKarpFinalStepNoCost(cost) ==
    [description |-> "Reconstructed optimal path",
     visitedNodes |-> Ref("path"), currentPath |-> Ref("path")]

\* Lines 196-202: both array fields are the path array itself.
HeldKarpFinalStep(cost) ==
    [description |-> "Reconstructed optimal path",
     visitedNodes |-> Ref("path"), currentPath |-> Ref("path"), cost |-> cost]

\* The refusal returned with cost 0 in place of the sentinel.
HeldKarpRefusalZeroCost == [path |-> <<>>, cost |-> 0, how |-> "refused"]

\* Lines 111-121: the TSPResult of the refusal branch.
HeldKarpRefusal == [path |-> <<>>, cost |-> Infinity, how |-> "refused"]

\* Line 110.
TooLarge(k) == k > HeldKarpLimit

\* Lines 110-122.
HeldKarpRefuse ==
    /\ alg = "heldKarp" /\ pc = "start"
    /\ TooLarge(N(distanceMatrix))
    /\ steps' = <<HeldKarpRefusalStep>>
    /\ result' = HeldKarpRefusal
    /\ pc' = "done"
    /\ UNCHANGED <<appvars, callvars, distanceMatrix, alg, path, totalCost, i, gvars, hvars, cvars>>

\* Lines 124-144.
HeldKarpInit ==
    /\ alg = "heldKarp" /\ pc = "start"
    /\ ~TooLarge(N(distanceMatrix))
    /\ steps' = <<HeldKarpInitStep, HeldKarpBuildStep>>
    /\ dp' = InitialTables(N(distanceMatrix)).dp
    /\ parent' = InitialTables(N(distanceMatrix)).parent
    /\ mask' = 1
    /\ pc' = "h_sweep"
    /\ UNCHANGED <<appvars, callvars, distanceMatrix, alg, path, totalCost, i, gvars, curr, minCost,
                   cvars, result>>

\* Lines 147-166: one iteration of the loop over mask (the loop's own mask).
HeldKarpSweep ==
    /\ alg = "heldKarp" /\ pc = "h_sweep"
    /\ mask < Pow2(N(distanceMatrix))
    /\ LET tbl == SweepLast(distanceMatrix, [dp |-> dp, parent |-> parent], mask, 0)
       IN  /\ dp' = tbl.dp
           /\ parent' = tbl.parent
    /\ mask' = mask + 1
    /\ UNCHANGED <<appvars, callvars, distanceMatrix, alg, pc, steps, path, totalCost, i, gvars, curr,
                   minCost, cvars, result>>

\* Lines 168-185: the best ending node, the start of the reconstruction.
HeldKarpBest ==
    /\ alg = "heldKarp" /\ pc = "h_sweep"
    /\ mask >= Pow2(N(distanceMatrix))
    /\ LET best == BestEnd(distanceMatrix, dp)
       IN  /\ minCost' = best.minCost
           /\ curr' = best.lastNode
    /\ mask' = Pow2(N(distanceMatrix)) - 1
    /\ path' = <<>>
    /\ pc' = "h_recon"
    /\ UNCHANGED <<appvars, callvars, distanceMatrix, alg, steps, totalCost, i, gvars, dp, parent,
                   cvars, result>>

\* Lines 187-192, one iteration.
HeldKarpRecon ==
    /\ alg = "heldKarp" /\ pc = "h_recon"
    /\ curr # -1
    /\ LET r == ReconStep(parent, path, mask, curr)
       IN  /\ path' = r.path
           /\ mask' = r.mask
           /\ curr' = r.curr
    /\ UNCHANGED <<appvars, callvars, distanceMatrix, alg, pc, steps, totalCost, i, gvars, dp, parent,
                   minCost, cvars, result>>

\* Lines 194-205.
HeldKarpFinish ==
    /\ alg = "heldKarp" /\ pc = "h_recon"
    /\ curr = -1
    /\ path' = Reverse(path)
    /\ steps' = Append(steps, HeldKarpFinalStep(minCost))
    /\ result' = [path |-> Reverse(path), cost |-> minCost, how |-> "returned"]
    /\ pc' = "done"
    /\ UNCHANGED <<appvars, callvars, distanceMatrix, alg, totalCost, i, gvars, hvars, cvars>>

\* ------------------------------------------------------------ christofides
\* Lines 339-345 of primMST: k over the unvisited, ascending, strict '<'
\* against the minimum so far.
RECURSIVE PrimScanK(_, _, _, _, _)
PrimScanK(dm, vis, j, k, best) ==
    IF k >= N(dm) THEN best
    ELSE IF k \notin vis /\ dm[j][k] < best.minWeight
         THEN PrimScanK(dm, vis, j, k + 1,
                        [minWeight |-> dm[j][k], minFrom |-> j, minTo |-> k])
         ELSE PrimScanK(dm, vis, j, k + 1, best)

\* Lines 336-346 of primMST: j over the visited, ascending.
RECURSIVE PrimScanJ(_, _, _, _)
PrimScanJ(dm, vis, j, best) ==
    IF j >= N(dm) THEN best
    ELSE IF j \notin vis THEN PrimScanJ(dm, vis, j + 1, best)
    ELSE PrimScanJ(dm, vis, j + 1, PrimScanK(dm, vis, j, 0, best))

\* The first edge out of the visited set taken, whatever its weight.
PrimPickFirstEdge(dm, vis) ==
    IF Nodes(dm) \ vis = {} THEN [minWeight |-> Infinity, minFrom |-> -1, minTo |-> -1]
    ELSE LET j == CHOOSE a \in vis : \A b \in vis : a <= b
             k == CHOOSE a \in Nodes(dm) \ vis : \A b \in Nodes(dm) \ vis : a <= b
         IN  [minWeight |-> dm[j][k], minFrom |-> j, minTo |-> k]

\* Lines 332-346.
PrimPick(dm, vis) ==
    PrimScanJ(dm, vis, 0, [minWeight |-> Infinity, minFrom |-> -1, minTo |-> -1])

\* Lines 224 and 257: the edges without their weight.
RECURSIVE EdgesOf(_)
EdgesOf(es) ==
    IF es = <<>> THEN <<>> ELSE <<Edge(Head(es).from, Head(es).to)>> \o EdgesOf(Tail(es))

\* Lines 234-238: degree[v] after counting both ends of every MST edge.
Degree(es, v) ==
    Cardinality({k \in DOMAIN es : es[k].from = v})
        + Cardinality({k \in DOMAIN es : es[k].to = v})

\* Lines 240-245.
RECURSIVE OddFrom(_, _, _)
OddFrom(es, n, v) ==
    IF v >= n THEN <<>>
    ELSE IF Degree(es, v) % 2 = 1
         THEN <<v>> \o OddFrom(es, n, v + 1)
         ELSE OddFrom(es, n, v + 1)

OddVertices(es, n) == OddFrom(es, n, 0)

\* Lines 368-379 of minimumWeightMatching: the partner of vertices[k], scanning
\* j = k+1.. ascending.  k and j are the source's 0-based indices.
RECURSIVE MatchScan(_, _, _, _, _, _)
MatchScan(vs, dm, usd, k, j, best) ==
    IF j >= Len(vs) THEN best
    ELSE IF vs[j + 1] \notin usd /\ dm[vs[k + 1]][vs[j + 1]] < best.minDist
         THEN MatchScan(vs, dm, usd, k, j + 1,
                        [minDist |-> dm[vs[k + 1]][vs[j + 1]], bestMatch |-> j])
         ELSE MatchScan(vs, dm, usd, k, j + 1, best)

BestMatch(vs, dm, usd, k) ==
    MatchScan(vs, dm, usd, k, k + 1, [minDist |-> Infinity, bestMatch |-> -1]).bestMatch

\* The matching loop that leaves the partner it picked unmarked.
MatchStepPartnerFree(vs, dm, m, usd, k) ==
    IF vs[k + 1] \in usd THEN [matching |-> m, used |-> usd]
    ELSE LET b == BestMatch(vs, dm, usd, k)
         IN  IF b # -1
             THEN [matching |-> Append(m, Edge(vs[k + 1], vs[b + 1])),
                   used |-> usd \cup {vs[k + 1]}]
             ELSE [matching |-> m, used |-> usd]

\* Lines 366-385: one iteration of the matching loop.
MatchStep(vs, dm, m, usd, k) ==
    IF vs[k + 1] \in usd THEN [matching |-> m, used |-> usd]
    ELSE LET b == BestMatch(vs, dm, usd, k)
         IN  IF b # -1
             THEN [matching |-> Append(m, Edge(vs[k + 1], vs[b + 1])),
                   used |-> usd \cup {vs[k + 1], vs[b + 1]}]
             ELSE [matching |-> m, used |-> usd]

\* Lines 267-275: every edge pushed on both adjacency lists, MST edges first.
RECURSIVE AddEdges(_, _)
AddEdges(g, es) ==
    IF es = <<>> THEN g
    ELSE LET e  == Head(es)
             g1 == [g EXCEPT ![e.from] = Append(@, e.to)]
             g2 == [g1 EXCEPT ![e.to] = Append(@, e.from)]
         IN  AddEdges(g2, Tail(es))

\* The graph of the MST edges alone.
EulerianGraphMstOnly(n, mstEs, matchEs) ==
    AddEdges([v \in 0 .. (n - 1) |-> <<>>], mstEs)

EulerianGraph(n, mstEs, matchEs) ==
    AddEdges(AddEdges([v \in 0 .. (n - 1) |-> <<>>], mstEs), matchEs)

\* adjList[u].indexOf(v) and splice(idx, 1): the first occurrence removed.
RECURSIVE RemoveFirst(_, _)
RemoveFirst(s, v) ==
    IF s = <<>> THEN <<>>
    ELSE IF Head(s) = v THEN Tail(s)
    ELSE <<Head(s)>> \o RemoveFirst(Tail(s), v)

\* The walk that never pops a vertex whose edges are used up.
EulerStepNoPop(adj, stk, circ) ==
    LET v == Last(stk)
    IN  IF Len(adj[v]) > 0
        THEN LET u    == Last(adj[v])
                 adj1 == [adj EXCEPT ![v] = SubSeq(@, 1, Len(@) - 1)]
                 adj2 == [adj1 EXCEPT ![u] = RemoveFirst(@, v)]
             IN  [adjList |-> adj2, stack |-> Append(stk, u), circuit |-> circ]
        ELSE [adjList |-> adj, stack |-> stk, circuit |-> circ]

\* The walk that leaves the reverse copy of a traversed edge in place.
EulerStepOneWay(adj, stk, circ) ==
    LET v == Last(stk)
    IN  IF Len(adj[v]) > 0
        THEN LET u    == Last(adj[v])
                 adj1 == [adj EXCEPT ![v] = SubSeq(@, 1, Len(@) - 1)]
             IN  [adjList |-> adj1, stack |-> Append(stk, u), circuit |-> circ]
        ELSE [adjList |-> adj, stack |-> SubSeq(stk, 1, Len(stk) - 1),
              circuit |-> Append(circ, v)]

\* Lines 397-409 of findEulerianCircuit: one iteration of the while loop.
EulerStep(adj, stk, circ) ==
    LET v == Last(stk)
    IN  IF Len(adj[v]) > 0
        THEN LET u    == Last(adj[v])
                 adj1 == [adj EXCEPT ![v] = SubSeq(@, 1, Len(@) - 1)]
                 adj2 == [adj1 EXCEPT ![u] = RemoveFirst(@, v)]
             IN  [adjList |-> adj2, stack |-> Append(stk, u), circuit |-> circ]
        ELSE [adjList |-> adj, stack |-> SubSeq(stk, 1, Len(stk) - 1),
              circuit |-> Append(circ, v)]

\* The circuit taken as the tour, repeats and all.
ShortcutKeepsRepeats(circ) == circ

\* Lines 296-303: the circuit with every repeated vertex skipped.
RECURSIVE ShortcutFrom(_, _, _)
ShortcutFrom(circ, seen, p) ==
    IF circ = <<>> THEN p
    ELSE IF Head(circ) \notin seen
         THEN ShortcutFrom(Tail(circ), seen \cup {Head(circ)}, Append(p, Head(circ)))
         ELSE ShortcutFrom(Tail(circ), seen, p)

Shortcut(circ) == ShortcutFrom(circ, {}, <<>>)

\* Lines 306-310.
RECURSIVE ChristofidesSum(_, _, _, _)
ChristofidesSum(p, dm, k, acc) ==
    IF k >= Len(p) THEN acc
    ELSE ChristofidesSum(p, dm, k + 1, acc + dm[p[k]][p[k + 1]])

ChristofidesCost(p, dm) == ChristofidesSum(p, dm, 1, 0) + dm[Last(p)][p[1]]

\* Lines 214-219.
ChristofidesStep1 ==
    [description |-> "Step 1: Find Minimum Spanning Tree (MST)",
     visitedNodes |-> Val(<<>>), currentPath |-> Val(<<>>)]

\* Lines 225-231.
ChristofidesMstStep ==
    [description |-> "MST computed",
     visitedNodes |-> Val(<<>>), currentPath |-> Val(<<>>),
     exploringEdges |-> Ref("mstEdges")]

\* Lines 247-252.
ChristofidesStep2 ==
    [description |-> "Step 2: Find vertices with odd degree",
     visitedNodes |-> Ref("oddVertices"), currentPath |-> Val(<<>>)]

\* Lines 258-264.
ChristofidesStep3 ==
    [description |-> "Step 3: Find minimum weight perfect matching",
     visitedNodes |-> Ref("oddVertices"), currentPath |-> Val(<<>>),
     exploringEdges |-> Ref("matchingEdges")]

\* Lines 277-283.
ChristofidesStep4(mstEs, matchEs) ==
    [description |-> "Step 4: Combine MST and matching to form Eulerian graph",
     visitedNodes |-> Val(<<>>), currentPath |-> Val(<<>>),
     exploringEdges |-> Val(mstEs \o matchEs)]

\* Lines 288-293.
ChristofidesStep5 ==
    [description |-> "Step 5: Find Eulerian circuit",
     visitedNodes |-> Ref("circuit"), currentPath |-> Ref("circuit")]

\* Lines 312-318.
ChristofidesStep6(cost) ==
    [description |-> "Step 6: Create Hamiltonian circuit by removing duplicates",
     visitedNodes |-> Ref("path"), currentPath |-> Ref("path"), cost |-> cost]

\* Lines 210-222 and 325-329: the first step, then primMST is entered.
ChristofidesStart ==
    /\ alg = "christofides" /\ pc = "start"
    /\ steps' = <<ChristofidesStep1>>
    /\ mstVisited' = {0}
    /\ mst' = <<>>
    /\ i' = 0
    /\ pc' = "c_prim"
    /\ UNCHANGED <<appvars, callvars, distanceMatrix, alg, path, totalCost, gvars, hvars, mstEdges,
                   oddVertices, matching, used, matchingEdges, eulerianGraph,
                   start, adjList, stack, circuit, result>>

\* Lines 331-352: one iteration of primMST's loop.
PrimIter ==
    /\ alg = "christofides" /\ pc = "c_prim"
    /\ i < N(distanceMatrix) - 1
    /\ LET pick == PrimPick(distanceMatrix, mstVisited)
       IN  IF pick.minTo # -1
           THEN /\ mstVisited' = mstVisited \cup {pick.minTo}
                /\ mst' = Append(mst, [from |-> pick.minFrom, to |-> pick.minTo,
                                       weight |-> pick.minWeight])
           ELSE UNCHANGED <<mstVisited, mst>>
    /\ i' = i + 1
    /\ UNCHANGED <<appvars, callvars, distanceMatrix, alg, pc, steps, path, totalCost, gvars, hvars,
                   mstEdges, oddVertices, matching, used, matchingEdges,
                   eulerianGraph, start, adjList, stack, circuit, result>>

\* Line 354, lines 224-252 and 361-362: primMST returns, the odd-degree
\* vertices are collected, minimumWeightMatching is entered.
PrimReturn ==
    /\ alg = "christofides" /\ pc = "c_prim"
    /\ i >= N(distanceMatrix) - 1
    /\ mstEdges' = EdgesOf(mst)
    /\ oddVertices' = OddVertices(mst, N(distanceMatrix))
    /\ steps' = steps \o <<ChristofidesMstStep, ChristofidesStep2>>
    /\ matching' = <<>>
    /\ used' = {}
    /\ i' = 0
    /\ pc' = "c_match"
    /\ UNCHANGED <<appvars, callvars, distanceMatrix, alg, path, totalCost, gvars, hvars, mst,
                   mstVisited, matchingEdges, eulerianGraph, start, adjList, stack,
                   circuit, result>>

\* Lines 365-386: one iteration of minimumWeightMatching's loop.
MatchIter ==
    /\ alg = "christofides" /\ pc = "c_match"
    /\ i < Len(oddVertices)
    /\ LET r == MatchStep(oddVertices, distanceMatrix, matching, used, i)
       IN  /\ matching' = r.matching
           /\ used' = r.used
    /\ i' = i + 1
    /\ UNCHANGED <<appvars, callvars, distanceMatrix, alg, pc, steps, path, totalCost, gvars, hvars,
                   mst, mstVisited, mstEdges, oddVertices, matchingEdges,
                   eulerianGraph, start, adjList, stack, circuit, result>>

\* Line 388, lines 257-286 and 392-394: the matching returns, the Eulerian
\* graph is assembled, findEulerianCircuit is entered with start = 0.
MatchReturn ==
    /\ alg = "christofides" /\ pc = "c_match"
    /\ i >= Len(oddVertices)
    /\ matchingEdges' = EdgesOf(matching)
    /\ eulerianGraph' = EulerianGraph(N(distanceMatrix), mst, matching)
    /\ steps' = steps \o <<ChristofidesStep3,
                           ChristofidesStep4(mstEdges, EdgesOf(matching))>>
    /\ start' = 0
    /\ adjList' = eulerianGraph'
    /\ stack' = <<start'>>
    /\ circuit' = <<>>
    /\ pc' = "c_euler"
    /\ UNCHANGED <<appvars, callvars, distanceMatrix, alg, path, totalCost, i, gvars, hvars, mst,
                   mstVisited, mstEdges, oddVertices, matching, used, result>>

\* Lines 396-410: one iteration of findEulerianCircuit's loop.
EulerIter ==
    /\ alg = "christofides" /\ pc = "c_euler"
    /\ Len(stack) > 0
    /\ LET r == EulerStep(adjList, stack, circuit)
       IN  /\ adjList' = r.adjList
           /\ stack' = r.stack
           /\ circuit' = r.circuit
    /\ UNCHANGED <<appvars, callvars, distanceMatrix, alg, pc, steps, path, totalCost, i, gvars, hvars,
                   mst, mstVisited, mstEdges, oddVertices, matching, used,
                   matchingEdges, eulerianGraph, start, result>>

\* Line 412 and lines 288-321: the circuit is reversed and returned, the tour
\* is cut out of it and costed.  An empty path makes line 310 read
\* distanceMatrix[undefined][undefined], which throws.
EulerReturn ==
    /\ alg = "christofides" /\ pc = "c_euler"
    /\ Len(stack) = 0
    /\ circuit' = Reverse(circuit)
    /\ path' = Shortcut(Reverse(circuit))
    /\ IF path' = <<>>
       THEN /\ steps' = Append(steps, ChristofidesStep5)
            /\ result' = [path |-> <<>>, cost |-> 0, how |-> "threw"]
            /\ UNCHANGED totalCost
       ELSE /\ totalCost' = ChristofidesCost(path', distanceMatrix)
            /\ steps' = steps \o <<ChristofidesStep5, ChristofidesStep6(totalCost')>>
            /\ result' = [path |-> path', cost |-> totalCost', how |-> "returned"]
    /\ pc' = "done"
    /\ UNCHANGED <<appvars, callvars, distanceMatrix, alg, i, gvars, hvars, mst, mstVisited, mstEdges,
                   oddVertices, matching, used, matchingEdges, eulerianGraph,
                   start, adjList, stack>>

\* A solver that has not returned.
NoResult == [path |-> <<>>, cost |-> 0, how |-> "running"]

\* --------------------------------------------------------------------- App
\* The App component (lines 428-567 and 584-729 of src/utils/tsp-algorithms.ts)
\* and the AlgorithmStepper it renders (src/unnamed/part_000).  A graph is
\* known by the order it was generated in and its size: points and matrix
\* are [n, graph], n = 0 for the empty array.  A stored result is known by
\* the matrix it was computed from and the length of its steps array.
DefaultCities == 8

\* Graphs generated in one run of the model.
MaxGraphs == 2

\* The position the slider is moved to: the first size Held-Karp refuses.
CityChoices == {HeldKarpLimit + 1}

Tabs == {"greedy", "heldkarp", "christofides"}

NoGraph == [n |-> 0, graph |-> 0]

\* null, for a result and for an interval that is not there.
Null == [matrix |-> NoGraph, steps |-> 0]

\* steps.length of what each solver returns on k nodes: greedyTSP pushes one
\* step, two per iteration and one more; heldKarpTSP one when it refuses and
\* three otherwise; christofidesTSP seven.
StepCount(a, k) ==
    CASE a = "greedy" -> 1 + 2 * (k - 1) + 1
      [] a = "heldkarp" -> IF TooLarge(k) THEN 1 ELSE 3
      [] a = "christofides" -> 7

\* Lines 467-474: the three results computed from matrix m.
Solve(m) == [a \in Tabs |-> [matrix |-> m, steps |-> StepCount(a, m.n)]]

\* Lines 483-529: the interval each effect keeps for what is rendered: one
\* per tab that is playing and has a result, its callback holding that result.
AutoPlay(playing, res) ==
    [a \in Tabs |-> IF playing[a] /\ res[a] # Null THEN res[a] ELSE Null]

\* Lines 429-444: the state of the component when it mounts.
AppMounted ==
    /\ numCities = DefaultCities
    /\ points = NoGraph
    /\ appMatrix = NoGraph
    /\ results = [a \in Tabs |-> Null]
    /\ stepIndex = [a \in Tabs |-> 0]
    /\ isPlaying = [a \in Tabs |-> FALSE]
    /\ isRunning = FALSE
    /\ activeTab = "greedy"
    /\ generated = 0
    /\ timeouts = {}
    /\ intervals = [a \in Tabs |-> Null]

\* Lines 588-594: the slider of the number of cities.
SetNumCities(v) ==
    /\ v # numCities
    /\ numCities' = v
    /\ UNCHANGED <<svars, points, appMatrix, results, stepIndex, isPlaying, isRunning,
                   activeTab, generated, timeouts, intervals>>

\* Lines 446-457.  A click: the effects of its render run before anything else.
GenerateGraph ==
    /\ generated < MaxGraphs
    /\ generated' = generated + 1
    /\ points' = [n |-> numCities, graph |-> generated + 1]
    /\ appMatrix' = points'
    /\ results' = [a \in Tabs |-> Null]
    /\ stepIndex' = [a \in Tabs |-> 0]
    /\ intervals' = AutoPlay(isPlaying, results')
    /\ UNCHANGED <<svars, numCities, isPlaying, isRunning, activeTab, timeouts>>

\* Lines 459-463 and 613-616: the button is enabled, the timer is set with
\* the matrix of this render in its closure.
RunAlgorithms ==
    /\ points.n # 0 /\ ~isRunning
    /\ appMatrix.n # 0
    /\ isRunning' = TRUE
    /\ timeouts' = timeouts \cup {appMatrix}
    /\ UNCHANGED <<svars, numCities, points, appMatrix, results, stepIndex, isPlaying,
                   activeTab, generated, intervals>>

\* Lines 466-479: the timer fires.  The intervals of the render before are
\* still live until the effects of the next one have run.
RunAlgorithmsTimeout ==
    \E m \in timeouts :
        /\ results' = Solve(m)
        /\ stepIndex' = [a \in Tabs |-> 0]
        /\ isRunning' = FALSE
        /\ timeouts' = timeouts \ {m}
        /\ UNCHANGED <<svars, numCities, points, appMatrix, isPlaying, activeTab,
                       generated, intervals>>

\* Lines 485-493, 501-509, 517-525: one tick of the interval of tab a, with
\* the result its callback holds.
AutoPlayTick(a) ==
    /\ intervals[a] # Null
    /\ IF stepIndex[a] >= intervals[a].steps - 1
       THEN /\ isPlaying' = [isPlaying EXCEPT ![a] = FALSE]
            /\ UNCHANGED stepIndex
       ELSE /\ stepIndex' = [stepIndex EXCEPT ![a] = @ + 1]
            /\ UNCHANGED isPlaying
    /\ UNCHANGED <<svars, numCities, points, appMatrix, results, isRunning, activeTab,
                   generated, timeouts, intervals>>

\* Lines 483-529: the effects of a render caused by a timer run: intervals of
\* the render before are cleared, those of this render are set.
AutoPlayEffect ==
    /\ intervals # AutoPlay(isPlaying, results)
    /\ intervals' = AutoPlay(isPlaying, results)
    /\ UNCHANGED <<svars, numCities, points, appMatrix, results, stepIndex, isPlaying,
                   isRunning, activeTab, generated, timeouts>>

\* Lines 649-660: the tabs are there once there are points.
SetActiveTab(t) ==
    /\ points.n # 0
    /\ t # activeTab
    /\ activeTab' = t
    /\ UNCHANGED <<svars, numCities, points, appMatrix, results, stepIndex, isPlaying,
                   isRunning, generated, timeouts, intervals>>

\* Lines 531-567 and 722: the stepper is rendered for the active tab when it
\* has a result.
StepperShown == results[activeTab] # Null

\* handleNext, part_000 lines 36-40 and 120-123.
HandleNext ==
    /\ StepperShown
    /\ stepIndex[activeTab] < results[activeTab].steps - 1
    /\ stepIndex' = [stepIndex EXCEPT ![activeTab] = @ + 1]
    /\ UNCHANGED <<svars, numCities, points, appMatrix, results, isPlaying, isRunning,
                   activeTab, generated, timeouts, intervals>>

\* handlePrevious, part_000 lines 30-34 and 105-108.
HandlePrevious ==
    /\ StepperShown
    /\ stepIndex[activeTab] > 0
    /\ stepIndex' = [stepIndex EXCEPT ![activeTab] = @ - 1]
    /\ UNCHANGED <<svars, numCities, points, appMatrix, results, isPlaying, isRunning,
                   activeTab, generated, timeouts, intervals>>

\* handleReset, part_000 lines 42-44 and 97-100.
HandleReset ==
    /\ StepperShown
    /\ stepIndex[activeTab] # 0
    /\ stepIndex' = [stepIndex EXCEPT ![activeTab] = 0]
    /\ UNCHANGED <<svars, numCities, points, appMatrix, results, isPlaying, isRunning,
                   activeTab, generated, timeouts, intervals>>

\* The progress slider, part_000 lines 85-91: a position from 0 to
\* steps.length - 1 (the first two and the last are tried).
SliderChange(v) ==
    /\ StepperShown
    /\ v \in 0 .. (results[activeTab].steps - 1)
    /\ v # stepIndex[activeTab]
    /\ stepIndex' = [stepIndex EXCEPT ![activeTab] = v]
    /\ UNCHANGED <<svars, numCities, points, appMatrix, results, isPlaying, isRunning,
                   activeTab, generated, timeouts, intervals>>

\* onPlayPause, line 729 and part_000 lines 112-118.  A click: the effects of
\* its render run before anything else.
PlayPause ==
    /\ StepperShown
    /\ isPlaying' = [isPlaying EXCEPT ![activeTab] = ~@]
    /\ intervals' = AutoPlay(isPlaying', results)
    /\ UNCHANGED <<svars, numCities, points, appMatrix, results, stepIndex, isRunning,
                   activeTab, generated, timeouts>>

\* No solver of the stepwise model runs in the App's runs.
SolverIdle ==
    /\ distanceMatrix = <<>>
    /\ alg = "greedy"
    /\ pc = "start"
    /\ steps = <<>>
    /\ path = <<>>
    /\ visited = {}
    /\ totalCost = 0
    /\ i = 0
    /\ dp = <<>>
    /\ parent = <<>>
    /\ mask = 0
    /\ curr = -1
    /\ minCost = Infinity
    /\ mst = <<>>
    /\ mstVisited = {}
    /\ mstEdges = <<>>
    /\ oddVertices = <<>>
    /\ matching = <<>>
    /\ used = {}
    /\ matchingEdges = <<>>
    /\ eulerianGraph = <<>>
    /\ start = -1
    /\ adjList = <<>>
    /\ stack = <<>>
    /\ circuit = <<>>
    /\ result = NoResult
    /\ calls = 1
    /\ previous = NoResult

AppInit == AppMounted /\ SolverIdle

AppNext ==
    \/ \E v \in CityChoices : SetNumCities(v)
    \/ GenerateGraph
    \/ RunAlgorithms
    \/ RunAlgorithmsTimeout
    \/ \E a \in Tabs : AutoPlayTick(a)
    \/ AutoPlayEffect
    \/ \E t \in Tabs : SetActiveTab(t)
    \/ HandleNext
    \/ HandlePrevious
    \/ HandleReset
    \/ \E v \in {0, 1, results[activeTab].steps - 1} : SliderChange(v)
    \/ PlayPause

AppSpec == AppInit /\ [][AppNext]_vars

\* The runs in which nothing but timers happens while a tab is playing: the
\* user presses play and then leaves the page alone until the play has ended.
Quiet == \A a \in Tabs : ~isPlaying[a]

PlayNext ==
    \/ Quiet /\ \E v \in CityChoices : SetNumCities(v)
    \/ Quiet /\ GenerateGraph
    \/ Quiet /\ RunAlgorithms
    \/ RunAlgorithmsTimeout
    \/ \E a \in Tabs : AutoPlayTick(a)
    \/ AutoPlayEffect
    \/ Quiet /\ \E t \in Tabs : SetActiveTab(t)
    \/ Quiet /\ HandleNext
    \/ Quiet /\ HandlePrevious
    \/ Quiet /\ HandleReset
    \/ Quiet /\ \E v \in {0, 1, results[activeTab].steps - 1} : SliderChange(v)
    \/ Quiet /\ PlayPause

PlaySpec == AppInit /\ [][PlayNext]_vars

\* -------------------------------------------------------------------- spec
Init ==
    /\ \/ /\ \E n \in 1 .. MaxN : \E w \in [Pairs(n) -> 0 .. 1] :
                distanceMatrix = MatrixOf(n, w)
          /\ alg \in {"greedy", "heldKarp", "christofides"}
       \/ /\ \E n \in 1 .. WideN : \E w \in [Pairs(n) -> 0 .. MaxW] :
                distanceMatrix = MatrixOf(n, w)
          /\ alg \in {"greedy", "heldKarp", "christofides"}
       \/ /\ distanceMatrix \in LargeMatrices
          /\ alg = "heldKarp"
    /\ pc = "start"
    /\ steps = <<>>
    /\ path = <<>>
    /\ visited = {}
    /\ totalCost = 0
    /\ i = 0
    /\ dp = <<>>
    /\ parent = <<>>
    /\ mask = 0
    /\ curr = -1
    /\ minCost = Infinity
    /\ mst = <<>>
    /\ mstVisited = {}
    /\ mstEdges = <<>>
    /\ oddVertices = <<>>
    /\ matching = <<>>
    /\ used = {}
    /\ matchingEdges = <<>>
    /\ eulerianGraph = <<>>
    /\ start = -1
    /\ adjList = <<>>
    /\ stack = <<>>
    /\ circuit = <<>>
    /\ result = NoResult
    /\ calls = 1
    /\ previous = NoResult
    /\ AppMounted

Next ==
    \/ GreedyStart
    \/ GreedyIter
    \/ GreedyReturn
    \/ HeldKarpRefuse
    \/ HeldKarpInit
    \/ HeldKarpSweep
    \/ HeldKarpBest
    \/ HeldKarpRecon
    \/ HeldKarpFinish
    \/ ChristofidesStart
    \/ PrimIter
    \/ PrimReturn
    \/ MatchIter
    \/ MatchReturn
    \/ EulerIter
    \/ EulerReturn

Spec == Init /\ [][Next]_vars

LiveSpec == Spec /\ WF_vars(Next)

\* ------------------------------------------------- the same solver called again
\* The solver is called a second time with the same matrix.  A call starts
\* at the top of the function; whatever the call before left in memory is
\* still there, and the function's own initialisations are what replace it.
CallAgain ==
    /\ pc = "done"
    /\ calls = 1
    /\ previous' = result
    /\ calls' = 2
    /\ result' = NoResult
    /\ pc' = "start"
    /\ UNCHANGED <<appvars, distanceMatrix, alg, steps, path, totalCost, i, gvars,
                   hvars, cvars>>

\* The matrices with entries 0 and 1: every scan meets ties.
TwiceInit ==
    /\ Init
    /\ \A a, b \in Nodes(distanceMatrix) : distanceMatrix[a][b] <= 1

TwiceNext ==
    \/ Next
    \/ CallAgain

TwiceSpec == TwiceInit /\ [][TwiceNext]_vars

\* --------------------------------------------- findEulerianCircuit alone
\* findEulerianCircuit(graph, start) called on any connected multigraph with
\* even degrees: up to MaxV vertices, up to MaxMult parallel edges between two
\* vertices, up to MaxEdges edges, every adjacency list in every order.
MaxV == 4
MaxMult == 2
MaxEdges == 4

\* How many edges join u and v when m gives the count of each pair.
Mult(m, u, v) == IF u = v THEN 0 ELSE IF u < v THEN m[<<u, v>>] ELSE m[<<v, u>>]

RECURSIVE DegreeIn(_, _, _)
DegreeIn(m, v, u) == IF u < 0 THEN 0 ELSE Mult(m, u, v) + DegreeIn(m, v, u - 1)

RECURSIVE EdgeCount(_, _, _)
EdgeCount(m, k, v) ==
    IF v < 0 THEN 0 ELSE DegreeIn(m, v, k - 1) + EdgeCount(m, k, v - 1)

RECURSIVE ReachedFrom(_, _, _, _)
ReachedFrom(m, k, seen, fuel) ==
    IF fuel = 0 THEN seen
    ELSE ReachedFrom(m, k,
                     seen \cup {v \in 0 .. (k - 1) : \E u \in seen : Mult(m, u, v) > 0},
                     fuel - 1)

EvenConnected(m, k) ==
    /\ EdgeCount(m, k, k - 1) <= 2 * MaxEdges
    /\ \A v \in 0 .. (k - 1) : DegreeIn(m, v, k - 1) % 2 = 0
    /\ ReachedFrom(m, k, {0}, k) = 0 .. (k - 1)

\* Every order of a list that holds u exactly c[u] times.
RECURSIVE Arrangements(_)
Arrangements(c) ==
    IF \A u \in DOMAIN c : c[u] = 0 THEN {<<>>}
    ELSE UNION {{<<u>> \o rest : rest \in Arrangements([c EXCEPT ![u] = @ - 1])} :
                   u \in {w \in DOMAIN c : c[w] > 0}}

\* The symmetric adjacency lists of the multigraph m, vertices 0..v filled in.
RECURSIVE ListsUpTo(_, _, _)
ListsUpTo(m, k, v) ==
    IF v < 0 THEN {<<>>}
    ELSE {g @@ (v :> l) :
             g \in ListsUpTo(m, k, v - 1),
             l \in Arrangements([u \in 0 .. (k - 1) |-> Mult(m, u, v)])}

EulerInit ==
    /\ \E k \in 1 .. MaxV : \E m \in [Pairs(k) -> 0 .. MaxMult] :
          /\ EvenConnected(m, k)
          /\ eulerianGraph \in ListsUpTo(m, k, k - 1)
          /\ start \in 0 .. (k - 1)
    /\ adjList = eulerianGraph
    /\ stack = <<start>>
    /\ circuit = <<>>
    /\ alg = "christofides"
    /\ pc = "c_euler"
    /\ distanceMatrix = <<>>
    /\ steps = <<>>
    /\ path = <<>>
    /\ visited = {}
    /\ totalCost = 0
    /\ i = 0
    /\ dp = <<>>
    /\ parent = <<>>
    /\ mask = 0
    /\ curr = -1
    /\ minCost = Infinity
    /\ mst = <<>>
    /\ mstVisited = {}
    /\ mstEdges = <<>>
    /\ oddVertices = <<>>
    /\ matching = <<>>
    /\ used = {}
    /\ matchingEdges = <<>>
    /\ result = NoResult
    /\ calls = 1
    /\ previous = NoResult
    /\ AppMounted

\* Line 412: the circuit reversed and handed back to the caller.
EulerCircuitReturn ==
    /\ pc = "c_euler"
    /\ Len(stack) = 0
    /\ circuit' = Reverse(circuit)
    /\ pc' = "returned"
    /\ UNCHANGED <<appvars, callvars, distanceMatrix, alg, steps, path, totalCost, i, gvars, hvars,
                   mst, mstVisited, mstEdges, oddVertices, matching, used,
                   matchingEdges, eulerianGraph, start, adjList, stack, result>>

EulerNext ==
    \/ EulerIter
    \/ EulerCircuitReturn

EulerSpec == EulerInit /\ [][EulerNext]_vars

\* ------------------------------------------------------------------ claims
Done == pc = "done"

n == N(distanceMatrix)

IsPermutation(p, k) == Len(p) = k /\ Range(p) = 0 .. (k - 1)

Perms(k) == {p \in [1 .. k -> 0 .. (k - 1)] : Range(p) = 0 .. (k - 1)}

LastStep == StepView(Last(steps))

TypeOK ==
    /\ ValidMatrix(distanceMatrix)
    /\ alg \in {"greedy", "heldKarp", "christofides"}
    /\ pc \in {"start", "g_loop", "h_sweep", "h_recon", "c_prim", "c_match",
               "c_euler", "done"}
    /\ result.how \in {"running", "returned", "refused", "threw"}
    /\ Done <=> result.how # "running"

\* The stepwise run of greedyTSP and greedyTSP as a function agree.
GreedyRunIsGreedyTSP ==
    Done /\ alg = "greedy" =>
        /\ result.path = greedyTSP(distanceMatrix).path
        /\ result.cost = greedyTSP(distanceMatrix).cost

\* The steps array a solver returns has the length the App model takes it
\* to have.
StepCountIsStepsLength ==
    Done => Len(steps) = StepCount(IF alg = "heldKarp" THEN "heldkarp" ELSE alg, n)

\* C1: for every valid matrix the path returned by greedyTSP, by
\* christofidesTSP, and by heldKarpTSP when n <= 15, is a permutation of
\* 0..n-1: length n, every node index exactly once.
C1_PathIsPermutation ==
    Done /\ (alg = "heldKarp" => n <= HeldKarpLimit) =>
        IsPermutation(result.path, n)

\* C1 holds of every solver and every matrix but Held-Karp on the single node.
C1_ExceptHeldKarpSingleNode ==
    Done /\ (alg = "heldKarp" => n <= HeldKarpLimit /\ n >= 2) =>
        IsPermutation(result.path, n)

\* C2: for every valid matrix with n <= 15, heldKarpTSP returns a permutation
\* whose closed-tour cost, recomputed from the matrix, is the returned cost,
\* and no permutation of 0..n-1 has a smaller closed-tour cost.
C2_HeldKarpOptimal ==
    Done /\ alg = "heldKarp" /\ n <= HeldKarpLimit =>
        /\ IsPermutation(result.path, n)
        /\ calculatePathCost(result.path, distanceMatrix) = result.cost
        /\ \A p \in Perms(n) : result.cost <= calculatePathCost(p, distanceMatrix)

\* C2 holds of every matrix with 2 <= n <= 15.
C2_ExceptSingleNode ==
    Done /\ alg = "heldKarp" /\ n <= HeldKarpLimit /\ n >= 2 =>
        /\ IsPermutation(result.path, n)
        /\ calculatePathCost(result.path, distanceMatrix) = result.cost
        /\ \A p \in Perms(n) : result.cost <= calculatePathCost(p, distanceMatrix)

\* C3: heldKarpTSP on a matrix with n > 15 never runs the dynamic program (no
\* table is allocated, no sweep or reconstruction position is reached) and
\* returns an empty path, the cost Infinity and exactly one step; for n <= 15
\* it does not return through the refusal branch.
C3_RefusalGuard ==
    alg = "heldKarp" =>
        /\ n > HeldKarpLimit =>
              /\ pc \in {"start", "done"}
              /\ dp = <<>> /\ parent = <<>>
              /\ Done => /\ result.how = "refused"
                         /\ result.path = <<>>
                         /\ result.cost = Infinity
                         /\ Len(steps) = 1
        /\ n <= HeldKarpLimit /\ Done => result.how = "returned"

C3_Witness ==
    Done /\ alg = "heldKarp" /\ n = HeldKarpLimit + 1 /\ result.how = "refused"

\* C4: on the single-node matrix each of greedyTSP, heldKarpTSP and
\* christofidesTSP returns path [0] and cost 0.
C4_SingleNode ==
    Done /\ n = 1 => result.path = <<0>> /\ result.cost = 0

\* C4 holds of greedyTSP and christofidesTSP.
C4_SingleNodeGreedyChristofides ==
    Done /\ n = 1 /\ alg # "heldKarp" => result.path = <<0>> /\ result.cost = 0

\* C5: greedyTSP returns a path whose first element is 0 and a cost equal to
\* calculatePathCost of that path: the consecutive matrix entries plus the
\* closing edge back to path[0].
C5_GreedyCost ==
    Done /\ alg = "greedy" =>
        /\ result.path[1] = 0
        /\ result.cost = calculatePathCost(result.path, distanceMatrix)

C5_Witness ==
    Done /\ alg = "greedy" /\ n >= 3 /\ result.cost > 0
         /\ distanceMatrix[Last(result.path)][0] > 0

\* C6: for every valid matrix with 1 <= n <= 10 the cost heldKarpTSP returns
\* is at most the cost greedyTSP returns on the same matrix.
C6_HeldKarpAtMostGreedy ==
    Done /\ alg = "heldKarp" /\ n <= 10 =>
        result.cost <= greedyTSP(distanceMatrix).cost

\* C6 holds of every matrix with 2 <= n <= 10.
C6_ExceptSingleNode ==
    Done /\ alg = "heldKarp" /\ n <= 10 /\ n >= 2 =>
        result.cost <= greedyTSP(distanceMatrix).cost

\* C7: the path christofidesTSP cuts out of the Eulerian circuit has no
\* repeated entry and contains every node 0..n-1, also when the circuit
\* repeats vertices, and the returned cost is the sum of the consecutive
\* distances along the path plus the closing edge.
C7_ShortcutIsTour ==
    Done /\ alg = "christofides" =>
        /\ result.how = "returned"
        /\ IsPermutation(result.path, n)
        /\ result.cost = calculatePathCost(result.path, distanceMatrix)

\* A circuit that visits a vertex other than its start twice.
C7_Witness ==
    Done /\ alg = "christofides" /\ result.how = "returned"
         /\ Len(circuit) > n + 1
         /\ \E a, b \in DOMAIN circuit : a < b /\ circuit[a] = circuit[b] /\ circuit[a] # 0

\* No edge committed or explored, and at most the start node on the path.
InitialSnapshot(s) ==
    /\ s.currentPath \in {<<>>, <<0>>}
    /\ s.visitedNodes = s.currentPath
    /\ "exploringEdges" \notin DOMAIN s
    /\ "highlightEdge" \notin DOMAIN s

\* C8 as stated: of every result, the refusal included, steps[0] is the
\* initial snapshot and the last step's currentPath is result.path and its
\* cost field is present and equal to result.cost.
C8_LastStepCarriesResult ==
    Done =>
        /\ InitialSnapshot(StepView(steps[1]))
        /\ LastStep.currentPath = result.path
        /\ "cost" \in DOMAIN LastStep
        /\ LastStep.cost = result.cost

\* C8 amended: steps[0] is the initial snapshot; the refusal's only step has
\* the (empty) result path and no cost field; the last step of every other
\* result has a cost field equal to result.cost and a currentPath that is
\* result.path for Held-Karp and Christofides and result.path followed by the
\* start node 0 for greedy.
C8_LastStepAmended ==
    Done =>
        /\ InitialSnapshot(StepView(steps[1]))
        /\ IF result.how = "refused"
           THEN /\ Len(steps) = 1
                /\ LastStep.currentPath = result.path
                /\ "cost" \notin DOMAIN LastStep
           ELSE /\ "cost" \in DOMAIN LastStep
                /\ LastStep.cost = result.cost
                /\ LastStep.currentPath =
                       IF alg = "greedy" THEN Append(result.path, 0) ELSE result.path

C8_Witness ==
    /\ Done /\ alg = "greedy" /\ n >= 3
    /\ LastStep.currentPath = Append(result.path, 0)
    /\ LastStep.cost = result.cost /\ result.cost > 0

\* C9: the step sequence is a write-once log: a solver step never shortens
\* it, and every step already in it reads the same afterwards in all its
\* fields, also while the solver pushes to its path, visited set or circuit.
C9_WriteOnceLog ==
    [][/\ Len(steps') >= Len(steps)
       /\ \A k \in 1 .. Len(steps) : StepsView'[k] = StepsView[k]]_vars

\* Steps are in the log and the working path has been pushed to since.
C9_Witness ==
    \/ alg = "greedy" /\ pc = "g_loop" /\ Len(steps) >= 5 /\ Len(path) >= 3
    \/ alg = "christofides" /\ pc = "c_euler" /\ Len(steps) >= 5 /\ Len(circuit) >= 2

\* path is a sequence of nodes, cost a number, steps non-empty, nothing thrown.
WellFormedResult ==
    /\ result.how \in {"returned", "refused"}
    /\ \A k \in DOMAIN result.path : result.path[k] \in Nodes(distanceMatrix)
    /\ result.cost \in Nat
    /\ Len(steps) >= 1

\* Number of bits set in m.
RECURSIVE PopCount(_)
PopCount(m) == IF m = 0 THEN 0 ELSE (m % 2) + PopCount(m \div 2)

RECURSIVE SumLen(_, _)
SumLen(adj, v) == IF v < 0 THEN 0 ELSE Len(adj[v]) + SumLen(adj, v - 1)

\* An upper bound on the steps the running solver still takes.  Per loop:
\* the for loops count n-1-i (greedy, Prim) and oddVertices.length - i
\* (matching); the reconstruction loop has the bits left in mask; the stack
\* walk has two per adjacency entry left plus the stack height.
StepsLeft ==
    CASE pc = "done"    -> 0
      [] pc = "g_loop"  -> (n - 1 - i) + 1
      [] pc = "h_sweep" -> (Pow2(n) - mask) + n + 2
      [] pc = "h_recon" -> (IF curr = -1 THEN 0 ELSE PopCount(mask)) + 1
      [] pc = "c_prim"  -> (n - 1 - i) + 8 * n + 3
      [] pc = "c_match" -> (Len(oddVertices) - i) + 6 * n + 1
      [] pc = "c_euler" -> 2 * SumLen(adjList, n - 1) + Len(stack) + 1
      [] pc = "start"   ->
            CASE alg = "greedy" -> n + 1
              [] alg = "heldKarp" -> IF TooLarge(n) THEN 1 ELSE Pow2(n) + n + 2
              [] alg = "christofides" -> 9 * n + 3

\* C10: every solver terminates on every valid matrix and returns a
\* well-formed result without throwing: a solver that has not returned can
\* take a step, every step lowers the natural number StepsLeft (so each loop
\* finishes after finitely many iterations), and what is returned is
\* well-formed.
C10_Terminates ==
    /\ [](~Done => ENABLED <<Next>>_vars)
    /\ [](StepsLeft \in Nat /\ (Done => WellFormedResult))
    /\ [][StepsLeft' < StepsLeft]_vars

\* C10 as a liveness property, under fairness of the solver's steps.
C10_EventuallyDone == <>(Done /\ WellFormedResult)

\* A run in which Prim's loop, the matching loop and the stack walk all ran.
C10_Witness ==
    /\ Done /\ alg = "christofides" /\ n >= 4
    /\ Len(mst) = n - 1 /\ Len(matching) >= 2 /\ Len(circuit) > n

\* C13: every iteration of greedyTSP's loop appends exactly one node: an
\* unvisited node at minimal distance from the last node of the path, the
\* lowest index among the unvisited nodes at that distance; it is marked
\* visited and the running cost grows by exactly that distance.
C13_GreedyPicksNearest ==
    [][alg = "greedy" /\ pc = "g_loop" /\ pc' = "g_loop" =>
          LET current   == Last(path)
              chosen    == Last(path')
              unvisited == Nodes(distanceMatrix) \ visited
          IN  /\ path' = Append(path, chosen)
              /\ chosen \in unvisited
              /\ \A j \in unvisited :
                    /\ distanceMatrix[current][chosen] <= distanceMatrix[current][j]
                    /\ distanceMatrix[current][j] = distanceMatrix[current][chosen]
                          => chosen <= j
              /\ visited' = visited \cup {chosen}
              /\ totalCost' = totalCost + distanceMatrix[current][chosen]]_vars

\* Two iterations ran: the first passed over node 1 for a nearer node, the
\* second chose the lower index of two unvisited nodes at the same distance.
C13_Witness ==
    /\ alg = "greedy" /\ pc = "g_loop" /\ Len(path) >= 3
    /\ distanceMatrix[0][1] > distanceMatrix[0][path[2]]
    /\ \E j \in Nodes(distanceMatrix) \ Range(SubSeq(path, 1, 3)) :
          /\ distanceMatrix[path[2]][j] = distanceMatrix[path[2]][path[3]]
          /\ path[3] < j

\* The vertices an odd number of MST edges end in.
OddDegreeSet == {v \in Nodes(distanceMatrix) : Degree(mst, v) % 2 = 1}

\* The matching pairs vertex v is an end of.
PairsAt(v) == {k \in DOMAIN matching : matching[k].from = v \/ matching[k].to = v}

\* C14: once minimumWeightMatching has returned in christofidesTSP, the
\* vertices of odd MST degree are an even number, oddVertices lists each of
\* them once, and the matching is perfect on them: every pair joins two
\* different odd-degree vertices, every odd-degree vertex is in exactly one
\* pair and no even-degree vertex is in any.
C14_PerfectMatching ==
    alg = "christofides" /\ pc \in {"c_euler", "done"} =>
        /\ Cardinality(OddDegreeSet) % 2 = 0
        /\ Range(oddVertices) = OddDegreeSet
        /\ Len(oddVertices) = Cardinality(OddDegreeSet)
        /\ \A k \in DOMAIN matching :
              /\ matching[k].from \in OddDegreeSet
              /\ matching[k].to \in OddDegreeSet
              /\ matching[k].from # matching[k].to
        /\ \A v \in OddDegreeSet : Cardinality(PairsAt(v)) = 1
        /\ \A v \in Nodes(distanceMatrix) \ OddDegreeSet : PairsAt(v) = {}

\* Four odd-degree vertices matched in two pairs, the first of them with a
\* partner that is not its neighbour in oddVertices.
C14_Witness ==
    /\ alg = "christofides" /\ Done
    /\ Len(oddVertices) = 4 /\ Len(matching) = 2
    /\ matching[1].to # oddVertices[2]

\* How many times u is on v's adjacency list.
Copies(adj, v, u) == Cardinality({k \in DOMAIN adj[v] : adj[v][k] = u})

\* How many MST and matching edges join u and v.
EdgesBetween(u, v) ==
    Cardinality({k \in DOMAIN mst : {mst[k].from, mst[k].to} = {u, v}})
        + Cardinality({k \in DOMAIN matching :
                          {matching[k].from, matching[k].to} = {u, v}})

\* findEulerianCircuit has just been called: nothing walked yet.
EulerCalled ==
    alg = "christofides" /\ pc = "c_euler" /\ stack = <<0>> /\ circuit = <<>>

\* C15: when christofidesTSP calls findEulerianCircuit, the graph it passes
\* holds every MST edge and every matching edge on both ends' lists, one copy
\* per edge (a matching pair that is also an MST edge is there twice), and
\* every vertex has even degree.
C15_EulerianGraphEven ==
    EulerCalled =>
        /\ DOMAIN eulerianGraph = Nodes(distanceMatrix)
        /\ \A u, v \in Nodes(distanceMatrix) :
              Copies(eulerianGraph, u, v) = EdgesBetween(u, v)
        /\ \A v \in Nodes(distanceMatrix) : Len(eulerianGraph[v]) % 2 = 0

\* A matching pair that is also an MST edge: a parallel edge in the graph.
C15_Witness ==
    /\ EulerCalled /\ n >= 4
    /\ \E u, v \in Nodes(distanceMatrix) :
          u # v /\ EdgesBetween(u, v) = 2 /\ Copies(eulerianGraph, u, v) = 2

\* primMST has just returned to christofidesTSP.
PrimReturned == alg = "christofides" /\ pc = "c_match" /\ i = 0 /\ matching = <<>>

\* The spanning trees of the complete graph on 0..n-1, each given by the
\* parent of every node but 0 when the tree is hung from node 0.
RECURSIVE ReachesRoot(_, _, _)
ReachesRoot(f, v, fuel) ==
    IF v = 0 THEN TRUE
    ELSE IF fuel = 0 THEN FALSE
    ELSE ReachesRoot(f, f[v], fuel - 1)

SpanningTrees ==
    {f \in [1 .. (n - 1) -> Nodes(distanceMatrix)] :
        \A v \in 1 .. (n - 1) : ReachesRoot(f, v, n)}

RECURSIVE TreeWeight(_, _)
TreeWeight(f, v) ==
    IF v < 1 THEN 0 ELSE distanceMatrix[v][f[v]] + TreeWeight(f, v - 1)

RECURSIVE MstWeight(_)
MstWeight(k) == IF k < 1 THEN 0 ELSE mst[k].weight + MstWeight(k - 1)

\* The nodes the first k edges of mst have reached, node 0 included.
MstReached(k) == {0} \cup {mst[j].to : j \in 1 .. k}

\* C17: primMST returns exactly n-1 edges; each joins a node already reached
\* from node 0 to a node not reached before, at the weight the matrix gives
\* (so the edges are a spanning tree: connected, no cycle, every node
\* reached); and no spanning tree of the complete graph weighs less.
C17_PrimIsMinimumSpanningTree ==
    PrimReturned =>
        /\ Len(mst) = n - 1
        /\ \A k \in DOMAIN mst :
              /\ mst[k].from \in MstReached(k - 1)
              /\ mst[k].to \in Nodes(distanceMatrix) \ MstReached(k - 1)
              /\ mst[k].weight = distanceMatrix[mst[k].from][mst[k].to]
        /\ MstReached(Len(mst)) = Nodes(distanceMatrix)
        /\ \A f \in SpanningTrees : MstWeight(Len(mst)) <= TreeWeight(f, n - 1)

\* A tree that is not the star around node 0 and that beats some other
\* spanning tree.
C17_Witness ==
    /\ PrimReturned /\ n >= 4
    /\ \E k \in DOMAIN mst : mst[k].from # 0
    /\ \E f \in SpanningTrees : MstWeight(Len(mst)) < TreeWeight(f, n - 1)

\* The cost of walking the first k nodes of p.
PrefixCost(p, k) == SumConsecutive(SubSeq(p, 1, k), distanceMatrix, 1)

\* C18: the log greedyTSP returns has exactly 2n steps: the start step with
\* path [0]; then for k = 1..n-1 an exploring step (no highlightEdge) whose
\* exploringEdges are the edges from the k-th node of the path to every node
\* not among the first k, directly followed by a move step (no
\* exploringEdges) whose highlightEdge goes from the k-th node to the
\* (k+1)-th and whose cost is the cost of the path so far; then the closing
\* step with the edge back to 0 and the total cost.  For n = 1 the log is
\* the start step and the closing step.
C18_GreedyStepOrder ==
    Done /\ alg = "greedy" =>
        LET p == result.path
            log == StepsView
        IN  /\ Len(log) = 2 * n
            /\ log[1].description = "Start at node 0"
            /\ log[1].currentPath = <<0>>
            /\ "exploringEdges" \notin DOMAIN log[1]
            /\ \A k \in 1 .. (n - 1) :
                  LET explore == log[2 * k]
                      move    == log[2 * k + 1]
                      before  == Range(SubSeq(p, 1, k))
                  IN  /\ explore.description = "exploring unvisited neighbors"
                      /\ "highlightEdge" \notin DOMAIN explore
                      /\ explore.currentNode = p[k]
                      /\ explore.currentPath = SubSeq(p, 1, k)
                      /\ Range(explore.exploringEdges) =
                            {Edge(p[k], j) : j \in Nodes(distanceMatrix) \ before}
                      /\ Len(explore.exploringEdges) = n - k
                      /\ explore.cost = PrefixCost(p, k)
                      /\ move.description = "Move to nearest node"
                      /\ "exploringEdges" \notin DOMAIN move
                      /\ move.highlightEdge = Edge(p[k], p[k + 1])
                      /\ move.currentNode = p[k + 1]
                      /\ move.currentPath = SubSeq(p, 1, k + 1)
                      /\ move.cost = PrefixCost(p, k + 1)
            /\ log[2 * n].description = "Return to start node 0"
            /\ "exploringEdges" \notin DOMAIN log[2 * n]
            /\ log[2 * n].highlightEdge = Edge(Last(p), 0)
            /\ log[2 * n].cost = result.cost

\* Eight steps on four nodes, with a move that costs something.
C18_Witness ==
    /\ Done /\ alg = "greedy" /\ n = 4 /\ Len(steps) = 8
    /\ StepsView[5].cost > StepsView[3].cost
    /\ Len(StepsView[4].exploringEdges) = 2

\* How many times the walk w goes between u and v, in either direction.
Traversals(w, u, v) ==
    Cardinality({k \in 1 .. (Len(w) - 1) : {w[k], w[k + 1]} = {u, v}})

Vertices == DOMAIN eulerianGraph

\* C16: on every connected multigraph with even degrees, given as a symmetric
\* adjacency list, findEulerianCircuit(graph, start) returns a walk that
\* starts and ends at start, has one vertex more than the graph has edges,
\* and goes between u and v exactly as often as the graph has edges between
\* them (so consecutive vertices are joined by an edge and every edge is used
\* exactly once); every traversal takes one copy of the edge off both ends'
\* working lists and nothing else; the graph passed in is never changed.
C16_EulerianCircuit ==
    /\ [](pc = "returned" =>
            /\ circuit[1] = start
            /\ Last(circuit) = start
            /\ 2 * (Len(circuit) - 1) = SumLen(eulerianGraph, Cardinality(Vertices) - 1)
            /\ \A u, v \in Vertices :
                  u # v => Traversals(circuit, u, v) = Copies(eulerianGraph, u, v)
            /\ \A v \in Vertices : adjList[v] = <<>>)
    /\ [][/\ eulerianGraph' = eulerianGraph
          /\ Len(stack') > Len(stack) =>
                LET v == Last(stack)
                    u == Last(stack')
                IN  /\ Copies(adjList, v, u) > 0
                    /\ \A a, b \in Vertices :
                          Copies(adjList', a, b) =
                              IF {a, b} = {u, v} THEN Copies(adjList, a, b) - 1
                              ELSE Copies(adjList, a, b)]_vars

\* A walk from a start other than 0 over parallel edges that comes back to
\* its start before the end.
C16_Witness ==
    /\ pc = "returned" /\ start # 0 /\ Len(circuit) >= 5
    /\ \E u, v \in Vertices : u # v /\ Copies(eulerianGraph, u, v) = 2
    /\ \E k \in 2 .. (Len(circuit) - 1) : circuit[k] = start

\* C11: a solver called a second time with the same matrix returns the same
\* path and the same cost as the first time, in the same way (returned or
\* refused), whatever ties the matrix holds; no step of a solver writes to
\* the matrix.
C11_SecondCallSameResult ==
    /\ [](Done /\ calls = 2 =>
            /\ result.path = previous.path
            /\ result.cost = previous.cost
            /\ result.how = previous.how)
    /\ [][distanceMatrix' = distanceMatrix]_vars

\* Held-Karp has returned twice on four nodes that are all at the same
\* distance from each other: every comparison of its sweep is a tie.
C11_Witness ==
    /\ Done /\ calls = 2 /\ alg = "heldKarp" /\ n = 4
    /\ \A a, b \in Nodes(distanceMatrix) : a # b => distanceMatrix[a][b] = 1
    /\ previous.how = "returned" /\ Len(previous.path) = 4

\* C19: every result that is stored was computed from the matrix that is
\* stored now, and that matrix is the matrix of the points that are shown.
C19_ResultsOfCurrentMatrix ==
    \A a \in Tabs :
        results[a] # Null => results[a].matrix = appMatrix /\ appMatrix = points

\* C12: whenever a result is stored for a tab, that tab's step index is an
\* index of the result's steps array: 0 <= i <= steps.length - 1.
C12_StepIndexInRange ==
    \A a \in Tabs :
        results[a] # Null => stepIndex[a] \in 0 .. (results[a].steps - 1)

\* C20: in the runs of PlaySpec, where no user event happens while a tab is
\* playing, a tick of the auto-play interval of a tab that is playing and has
\* a stored result raises that tab's step index by exactly one and leaves it
\* playing when the index is below steps.length - 1; otherwise it leaves the
\* index where it is and switches that tab's isPlaying off; it never changes
\* the step index or the isPlaying flag of another tab.
C20_AutoPlayTicks ==
    [][\A a \in Tabs :
          AutoPlayTick(a) /\ isPlaying[a] /\ results[a] # Null =>
              /\ stepIndex[a] < results[a].steps - 1 =>
                    stepIndex'[a] = stepIndex[a] + 1 /\ isPlaying'[a]
              /\ stepIndex[a] >= results[a].steps - 1 =>
                    stepIndex'[a] = stepIndex[a] /\ ~isPlaying'[a]
              /\ \A b \in Tabs \ {a} :
                    stepIndex'[b] = stepIndex[b] /\ isPlaying'[b] = isPlaying[b]]_vars

====
